---- MODULE Spec2Model ----
(***************************************************************************)
(* 7Cav_Retention: the two batch pipelines that turn per-member Milpacs    *)
(* record documents into membership intervals and then into                *)
(*   - the daily unit strength table  (Milpacs/unitStrengthHistory.py)     *)
(*   - the cohort retention table     (cohortRetentionAnalysis.py)         *)
(* and the per-member plot of cohort movements (CohortMovementTracker.py). *)
(*                                                                         *)
(* extract_events and create_memberships are the same code, line for line, *)
(* in both scripts (parse_unit / normalize_squad differ in wording but     *)
(* agree on every text squad_pattern can match); they are modelled once.   *)
(*                                                                         *)
(* Representation.                                                         *)
(*   text      a sequence of tokens; "/" is a token of its own, so that    *)
(*             str.split('/') is a split of the token sequence             *)
(*   datetime  a number of ticks since 2023-01-01 00:00, TicksPerDay ticks *)
(*             to the day; a parsed recordDate is a midnight, a reading of *)
(*             datetime.now() is any tick                                  *)
(*   None      the string "None" for a unit field, NoDate for a date,      *)
(*             << >> for current_assignment                                *)
(*   DataFrame a sequence of rows; a table that is grouped and sorted by   *)
(*             its key columns is the set of its rows                      *)
(***************************************************************************)
EXTENDS Integers, Sequences, FiniteSets, TLC

VARIABLES
    script,           \* which program runs: "strength", "retention" or "tracker"
    docs,             \* the input folder: one document (its "records") per file
    clock,            \* the wall clock at the last datetime.now() reading
    pc,               \* where main is: "loop" | "done" | "crashed"; the
                      \* tracker: "extract" | "done" | "crashed"
    idx,              \* number of files the loop of main has taken
    events_df,        \* main's events_df for the last file taken
    memberships_df,   \* main's memberships_df for the last file folded
    all_memberships,  \* main's all_memberships
    output,           \* the rows written to output_csv
    message,          \* what main printed last, or the exception that ended it
    first,            \* << >>, or <<the result of an earlier run on docs>>
    movements         \* the tracker's movements, as handed to the plot

vars == <<script, docs, clock, pc, idx, events_df, memberships_df,
          all_memberships, output, message, first, movements>>

----------------------------------------------------------------------------
(* Bounds of the model.                                                    *)

TicksPerDay == 2
MaxFiles == 2
MaxFolderRecords == 3
MaxFoldRecords == 3
MaxAdvance == 1

----------------------------------------------------------------------------
(* Python values.                                                          *)

NoDate == -1

None == "None"

Range(s) == {s[i] : i \in 1..Len(s)}

RECURSIVE Concat(_)
Concat(ss) == IF ss = << >> THEN << >> ELSE Head(ss) \o Concat(Tail(ss))

SetMin(S) == CHOOSE x \in S : \A y \in S : x <= y

----------------------------------------------------------------------------
(* Calendar: datetime.strptime(.., "%Y-%m-%d"), timedelta(days=n),         *)
(* Timestamp.to_period('M').strftime('%Y-%m').                             *)

IsLeap(y) == (y % 4 = 0) /\ ((y % 100 # 0) \/ (y % 400 = 0))

DaysInMonth(y, m) ==
    IF m = 2 THEN (IF IsLeap(y) THEN 29 ELSE 28)
    ELSE IF m \in {4, 6, 9, 11} THEN 30 ELSE 31

RECURSIVE DaysBeforeMonth(_, _)
DaysBeforeMonth(y, m) ==
    IF m <= 1 THEN 0 ELSE DaysBeforeMonth(y, m - 1) + DaysInMonth(y, m - 1)

RECURSIVE DaysBeforeYear(_)
DaysBeforeYear(y) ==
    IF y <= 2023 THEN 0
    ELSE DaysBeforeYear(y - 1) + (IF IsLeap(y - 1) THEN 366 ELSE 365)

\* A recordDate string is modelled by its three fields <<year, month, day>>.
\* strptime accepts it iff the fields name a day of the calendar (of the
\* years 2023 to 2025, the years of the model's documents).
ValidDate(s) ==
    /\ Len(s) = 3
    /\ s[1] \in 2023..2025
    /\ s[2] \in 1..12
    /\ s[3] \in 1..DaysInMonth(s[1], s[2])

strptime(s) ==
    (DaysBeforeYear(s[1]) + DaysBeforeMonth(s[1], s[2]) + (s[3] - 1)) * TicksPerDay

timedelta(days) == days * TicksPerDay

DayOf(t) == t \div TicksPerDay

\* 'YYYY-MM' of a datetime, as <<year, month>>.
assign_cohort(join_date) ==
    CHOOSE ym \in (2023..2026) \X (1..12) :
        LET firstDay == DaysBeforeYear(ym[1]) + DaysBeforeMonth(ym[1], ym[2])
        IN  /\ firstDay <= DayOf(join_date)
            /\ DayOf(join_date) < firstDay + DaysInMonth(ym[1], ym[2])

----------------------------------------------------------------------------
(* parse_unit and normalize_squad.                                         *)

UpperLetters ==
    <<"A", "B", "C", "D", "E", "F", "G", "H", "I", "J", "K", "L", "M",
      "N", "O", "P", "Q", "R", "S", "T", "U", "V", "W", "X", "Y", "Z">>

Ordinals ==
    <<"1", "2", "3", "4", "5", "6", "7", "8", "9", "10", "11", "12", "13",
      "14", "15", "16", "17", "18", "19", "20", "21", "22", "23", "24", "25", "26">>

Digits == {"0", "1", "2", "3", "4", "5", "6", "7", "8", "9"}

BattalionDesignators == {"1-7", "2-7", "3-7", "ACD"}

\* The \b-delimited words of one token: "2-7" reads as the words "2", "7".
WordPieces(tok) ==
    IF tok = "1-7" THEN <<"1", "7">>
    ELSE IF tok = "2-7" THEN <<"2", "7">>
    ELSE IF tok = "3-7" THEN <<"3", "7">>
    ELSE <<tok>>

RECURSIVE Words(_)
Words(text) ==
    IF text = << >> THEN << >> ELSE WordPieces(Head(text)) \o Words(Tail(text))

\* pattern.findall(text)[0] if any match else None
safe_extract(matches) == IF matches = << >> THEN None ELSE Head(matches)

squad_matches(text) ==
    SelectSeq(Words(text), LAMBDA w : w \in Range(UpperLetters) \/ w \in Digits)
platoon_matches(text) == SelectSeq(Words(text), LAMBDA w : w \in Digits)
company_matches(text) == SelectSeq(Words(text), LAMBDA w : w \in Range(UpperLetters))
battalion_matches(text) == SelectSeq(text, LAMBDA tok : tok \in BattalionDesignators)

normalize_squad(squad) ==
    IF squad = None THEN None
    ELSE IF squad \in Range(UpperLetters)
         THEN Ordinals[CHOOSE i \in 1..Len(UpperLetters) : UpperLetters[i] = squad]
         ELSE squad

\* title.split('/')
RECURSIVE SplitOn(_, _, _)
SplitOn(text, sep, part) ==
    IF text = << >> THEN <<part>>
    ELSE IF Head(text) = sep THEN <<part>> \o SplitOn(Tail(text), sep, << >>)
    ELSE SplitOn(Tail(text), sep, Append(part, Head(text)))

parse_unit(title) ==
    LET parts == SplitOn(title, "/", << >>)
    IN  [Squad     |-> normalize_squad(safe_extract(squad_matches(parts[1]))),
         Platoon   |-> IF Len(parts) > 1 THEN safe_extract(platoon_matches(parts[2])) ELSE None,
         Company   |-> IF Len(parts) > 2 THEN safe_extract(company_matches(parts[3])) ELSE None,
         Battalion |-> IF Len(parts) > 3 THEN safe_extract(battalion_matches(parts[4])) ELSE None]

\* details.split("Assigned")[-1]: the text after the last "Assigned"
RECURSIVE AfterLast(_, _)
AfterLast(text, marker) ==
    IF marker \notin Range(text) THEN text ELSE AfterLast(Tail(text), marker)

----------------------------------------------------------------------------
(* extract_events.                                                         *)

unit_of(details) == parse_unit(AfterLast(details, "Assigned"))

transfer_event(record_date, unit) ==
    [date |-> record_date, event |-> "transfer",
     Squad |-> unit.Squad, Platoon |-> unit.Platoon,
     Company |-> unit.Company, Battalion |-> unit.Battalion]

discharge_event(record_date) ==
    [date |-> record_date, event |-> "discharge",
     Squad |-> None, Platoon |-> None, Company |-> None, Battalion |-> None]

\* The for loop over data["records"]: the events appended so far, and the
\* exception, if any, that record["..."] or strptime raised.
RECURSIVE scan_records(_, _)
scan_records(records, events) ==
    IF records = << >> THEN [raised |-> None, events |-> events]
    ELSE LET record == Head(records)
         IN  IF "recordType" \notin DOMAIN record
                 THEN [raised |-> "KeyError", events |-> events]
             ELSE IF "recordDate" \notin DOMAIN record
                 THEN [raised |-> "KeyError", events |-> events]
             ELSE IF ~ValidDate(record.recordDate)
                 THEN [raised |-> "ValueError", events |-> events]
             ELSE IF "recordDetails" \notin DOMAIN record
                 THEN [raised |-> "KeyError", events |-> events]
             ELSE IF record.recordType = "RECORD_TYPE_TRANSFER"
                 THEN scan_records(Tail(records),
                          Append(events, transfer_event(strptime(record.recordDate),
                                                        unit_of(record.recordDetails))))
             ELSE IF record.recordType = "RECORD_TYPE_DISCHARGE"
                 THEN scan_records(Tail(records),
                          Append(events, discharge_event(strptime(record.recordDate))))
             ELSE scan_records(Tail(records), events)

\* The sequence without its i-th element.
Without(seq, i) == SubSeq(seq, 1, i - 1) \o SubSeq(seq, i + 1, Len(seq))

\* DataFrame.sort_values('date').reset_index(drop=True).  The default
\* kind='quicksort' is not a stable sort: every ascending order of the rows
\* is an order the call may return (any row of the least date may come first).
RECURSIVE sort_values(_)
sort_values(events) ==
    IF events = << >> THEN {<< >>}
    ELSE LET least == {i \in 1..Len(events) :
                          \A j \in 1..Len(events) : events[i].date <= events[j].date}
         IN  UNION {{<<events[i]>> \o rest : rest \in sort_values(Without(events, i))} :
                    i \in least}

\* The results extract_events(data) may return: the exception raised, or the
\* sorted events.
extract_events(data) ==
    LET scanned == scan_records(data, << >>)
    IN  IF scanned.raised # None THEN {scanned}
        ELSE {[raised |-> None, events |-> ev] : ev \in sort_values(scanned.events)}

----------------------------------------------------------------------------
(* CohortMovementTracker.extract_cohort_movements.                         *)

\* details.split(): white space separates the tokens of a text, except
\* around a "/": "Assigned 2/3/B/2-7" is the two words "Assigned" and
\* "2/3/B/2-7".  `word` is the word being read.
RECURSIVE split(_, _)
split(text, word) ==
    IF text = << >> THEN (IF word = << >> THEN << >> ELSE <<word>>)
    ELSE IF Head(text) = "/" \/ (word # << >> /\ word[Len(word)] = "/")
        THEN split(Tail(text), Append(word, Head(text)))
    ELSE (IF word = << >> THEN << >> ELSE <<word>>) \o split(Tail(text), <<Head(text)>>)

\* letter_map.get(letter, letter): 'A'..'I' to '1'..'9'
convert_letter_to_number(letter) ==
    IF \E i \in 1..9 : UpperLetters[i] = letter
        THEN Ordinals[CHOOSE i \in 1..9 : UpperLetters[i] = letter]
        ELSE letter

\* The number of characters of a token if all of them are digits, else 0.
NumDigits(tok) ==
    IF tok \in Digits THEN 1
    ELSE IF tok \in {"05", "23"} \/ \E i \in 10..26 : Ordinals[i] = tok THEN 2
    ELSE IF tok = "101" THEN 3
    ELSE 0

\* re.match(r"\d{3}/\d{2}/\d{2}", cohort), on the parts of cohort.split("/"),
\* each of them one token or empty.
boot_camp_match(parts) ==
    /\ Len(parts) >= 3
    /\ parts[1] # << >> /\ NumDigits(parts[1][1]) = 3
    /\ parts[2] # << >> /\ NumDigits(parts[2][1]) = 2
    /\ parts[3] # << >> /\ NumDigits(parts[3][1]) >= 2

\* "/".join(parts)
RECURSIVE join(_)
join(parts) ==
    IF Len(parts) = 1 THEN parts[1]
    ELSE parts[1] \o <<"/">> \o join(Tail(parts))

\* A cohort is a text too: <<"Unknown">>, <<"Boot Camp">>, or a unit word.
normalize_cohort_format(cohort) ==
    LET parts == SplitOn(cohort, "/", << >>)
        converted ==
            IF parts[1] # << >>
                THEN [parts EXCEPT ![1] = <<convert_letter_to_number(parts[1][1])>>]
                ELSE parts
    IN  IF boot_camp_match(parts) THEN <<"Boot Camp">>
        ELSE IF Len(parts) > 1 THEN join(converted)
        ELSE <<"Unknown">>

\* next((word for word in words if "/" in word), "Unknown")
first_unit_word(words) ==
    LET found == SelectSeq(words, LAMBDA word : "/" \in Range(word))
    IN  IF found = << >> THEN <<"Unknown">> ELSE Head(found)

\* str.lower(), on the capitalised words of the model's texts.
lower(tok) ==
    IF tok = "Retired" THEN "retired"
    ELSE IF tok = "Discharged" THEN "discharged"
    ELSE IF tok = "Reassigned" THEN "reassigned"
    ELSE IF tok = "Assigned" THEN "assigned"
    ELSE IF tok = "Promoted" THEN "promoted"
    ELSE tok

\* "retired" in details.lower()
mentions_retired(details) == \E k \in 1..Len(details) : lower(details[k]) = "retired"

transfer_movement(date, details) ==
    [date |-> date, cohort |-> normalize_cohort_format(first_unit_word(split(details, << >>)))]

discharge_movement(date, details) ==
    [date |-> date,
     cohort |-> IF mentions_retired(details) THEN <<"Retired">> ELSE <<"Discharged">>]

\* The for loop over user_data["records"]: the movements appended so far, and
\* the exception, if any, that strptime or record["..."] raised.
RECURSIVE scan_movements(_, _)
scan_movements(records, found) ==
    IF records = << >> THEN [raised |-> None, movements |-> found]
    ELSE LET record == Head(records)
         IN  IF "recordDate" \notin DOMAIN record
                 THEN [raised |-> "KeyError", movements |-> found]
             ELSE IF ~ValidDate(record.recordDate)
                 THEN [raised |-> "ValueError", movements |-> found]
             ELSE IF "recordType" \notin DOMAIN record
                 THEN [raised |-> "KeyError", movements |-> found]
             ELSE IF record.recordType \notin {"RECORD_TYPE_TRANSFER", "RECORD_TYPE_DISCHARGE"}
                 THEN scan_movements(Tail(records), found)
             ELSE IF "recordDetails" \notin DOMAIN record
                 THEN [raised |-> "KeyError", movements |-> found]
             ELSE IF record.recordType = "RECORD_TYPE_TRANSFER"
                 THEN scan_movements(Tail(records),
                          Append(found, transfer_movement(strptime(record.recordDate),
                                                          record.recordDetails)))
             ELSE scan_movements(Tail(records),
                      Append(found, discharge_movement(strptime(record.recordDate),
                                                       record.recordDetails)))

\* sorted(movements, key=lambda x: x["date"]): Python's sort is stable, the
\* first of the movements of the least date comes first.
RECURSIVE sorted(_)
sorted(found) ==
    IF found = << >> THEN << >>
    ELSE LET i == CHOOSE i \in 1..Len(found) :
                      /\ \A j \in 1..Len(found) : found[i].date <= found[j].date
                      /\ \A j \in 1..(i - 1) : found[j].date > found[i].date
         IN  <<found[i]>> \o sorted(Without(found, i))

\* The exception raised, or the sorted movements.
extract_cohort_movements(user_data) ==
    LET scanned == scan_movements(user_data, << >>)
    IN  IF scanned.raised # None THEN scanned
        ELSE [raised |-> None, movements |-> sorted(scanned.movements)]

----------------------------------------------------------------------------
(* create_memberships.                                                     *)

\* A fold that opens the assignment without the squad of the transfer.
new_assignment_without_squad(event) ==
    [start_date |-> event.date,
     Squad |-> None, Platoon |-> event.Platoon,
     Company |-> event.Company, Battalion |-> event.Battalion,
     end_date |-> NoDate]

new_assignment(event) ==
    [start_date |-> event.date,
     Squad |-> event.Squad, Platoon |-> event.Platoon,
     Company |-> event.Company, Battalion |-> event.Battalion,
     end_date |-> NoDate]

\* A fold that forgets the "- timedelta(days=1)".
close_on_transfer_same_day(current_assignment, event) ==
    [current_assignment EXCEPT !.end_date = event.date]

close_on_transfer(current_assignment, event) ==
    [current_assignment EXCEPT !.end_date = event.date - timedelta(1)]

close_on_discharge(current_assignment, event) ==
    [current_assignment EXCEPT !.end_date = event.date]

close_at_end(current_assignment, now) ==
    [current_assignment EXCEPT !.end_date = now]

\* The for loop over events_df.iterrows(): current_assignment (<< >> for None)
\* and memberships after the last event.
RECURSIVE fold_events(_, _, _)
fold_events(events, current_assignment, memberships) ==
    IF events = << >>
        THEN [current_assignment |-> current_assignment, memberships |-> memberships]
    ELSE LET event == Head(events)
         IN  IF event.event = "transfer"
                 THEN fold_events(Tail(events), <<new_assignment(event)>>,
                          IF current_assignment # << >>
                              THEN Append(memberships,
                                          close_on_transfer(current_assignment[1], event))
                              ELSE memberships)
             ELSE IF event.event = "discharge" /\ current_assignment # << >>
                 THEN fold_events(Tail(events), << >>,
                          Append(memberships,
                                 close_on_discharge(current_assignment[1], event)))
             ELSE fold_events(Tail(events), current_assignment, memberships)

\* True when the fold reaches "if current_assignment:" with an open
\* assignment, that is when create_memberships reads datetime.now().
reads_clock(events) == fold_events(events, << >>, << >>).current_assignment # << >>

create_memberships(events, now) ==
    LET folded == fold_events(events, << >>, << >>)
    IN  IF folded.current_assignment # << >>
            THEN Append(folded.memberships, close_at_end(folded.current_assignment[1], now))
            ELSE folded.memberships

----------------------------------------------------------------------------
(* calculate_daily_strength (unitStrengthHistory.py).                      *)

\* pd.date_range(start=.., end=..): the days from start, while not after end
date_range(start, end) ==
    IF end < start THEN {}
    ELSE {start + timedelta(k) : k \in 0..((end - start) \div TicksPerDay)}

\* d \in date_range(start, end), without building the range
in_date_range(d, start, end) ==
    /\ start <= d
    /\ d <= end
    /\ (d - start) % TicksPerDay = 0

unit_key(row) ==
    [Battalion |-> row.Battalion, Company |-> row.Company,
     Platoon |-> row.Platoon, Squad |-> row.Squad]

\* groupby(..) keeps a row only if none of its key columns is NA (dropna=True)
notna_unit(row) ==
    /\ row.Battalion # None
    /\ row.Company # None
    /\ row.Platoon # None
    /\ row.Squad # None

\* The daily_strength list: for membership row i, the inner loop appends one
\* entry per date of dates_of(memberships[i]).
dates_of(row) == date_range(row.start_date, row.end_date)

has_entry(row, d) == in_date_range(d, row.start_date, row.end_date)

\* The rows groupby(['date', 'Battalion', ..]) groups.
grouped_rows(memberships) == {i \in 1..Len(memberships) : notna_unit(memberships[i])}

\* The grouped, counted and sorted frame, as the set of its rows
\* <<date, Battalion, Company, Platoon, Squad, strength>>: the size of a
\* (date, unit) group is the number of entries with that date and unit.
daily_unit_strength(memberships) ==
    LET kept  == grouped_rows(memberships)
        units == {unit_key(memberships[i]) : i \in kept}
    IN  UNION {LET rowsOf == {i \in kept : unit_key(memberships[i]) = u}
               IN  {<<d, u.Battalion, u.Company, u.Platoon, u.Squad,
                      Cardinality({i \in rowsOf : has_entry(memberships[i], d)})>> :
                    d \in UNION {dates_of(memberships[i]) : i \in rowsOf}} : u \in units}

\* calculate_daily_strength raises KeyError('date') when the frame built from
\* an empty daily_strength list has no columns to group by.
daily_strength_raises(memberships) ==
    IF \A i \in 1..Len(memberships) : dates_of(memberships[i]) = {}
        THEN "KeyError" ELSE None

calculate_daily_strength(memberships) == daily_unit_strength(memberships)

----------------------------------------------------------------------------
(* calculate_retention (cohortRetentionAnalysis.py).                       *)

intervals == <<30, 90, 180, 365>>

\* round(x, 2) of x = 100 * retained / total, in hundredths of a percent
\* (round half to even).
round2(retained, total) ==
    LET n == 10000 * retained
        q == n \div total
        r == n % total
    IN  IF 2 * r > total THEN q + 1
        ELSE IF 2 * r = total THEN q + (q % 2)
        ELSE q

check_date(group_start, interval) == group_start + timedelta(interval)

\* A comparison turned round.
is_retained_until(end_date, check) == end_date <= check

is_retained(end_date, check) == end_date >= check

retention_of(memberships, group, interval) ==
    LET check    == check_date(SetMin({memberships[i].start_date : i \in group}), interval)
        retained == Cardinality({i \in group : is_retained(memberships[i].end_date, check)})
    IN  round2(retained, Cardinality(group))

cohort_key(row) == [cohort |-> assign_cohort(row.start_date), unit |-> unit_key(row)]

cohort_rows(memberships) ==
    LET kept == grouped_rows(memberships)
        keys == {cohort_key(memberships[i]) : i \in kept}
        groupOf(k) == {i \in kept : cohort_key(memberships[i]) = k}
    IN  {[Cohort |-> k.cohort,
          Battalion |-> k.unit.Battalion, Company |-> k.unit.Company,
          Platoon |-> k.unit.Platoon, Squad |-> k.unit.Squad,
          TotalMembers |-> Cardinality(groupOf(k)),
          Retention |-> [j \in 1..Len(intervals) |->
                            retention_of(memberships, groupOf(k), intervals[j])]] :
         k \in keys}

\* calculate_retention raises KeyError('start_date') on a frame without
\* columns (no membership row at all).
retention_raises(memberships) == IF memberships = << >> THEN "KeyError" ELSE None

calculate_retention(memberships) == cohort_rows(memberships)

----------------------------------------------------------------------------
(* The input documents of the model.                                       *)

\* recordDate strings: three days of the calendar and "2023-02-30".
\* 2023-04-01 is 90 days after 2023-01-01.
GoodDates == {<<2023, 1, 1>>, <<2023, 1, 2>>, <<2023, 4, 1>>}
BadDate == <<2023, 2, 30>>

\* recordDetails texts: "... Assigned 2/3/B/2-7" and "... Assigned HQ/3/B/2-7".
TransferDetails ==
    {<<"Reassigned", "and", "Assigned", "2", "/", "3", "/", "B", "/", "2-7">>,
     <<"Reassigned", "and", "Assigned", "HQ", "/", "3", "/", "B", "/", "2-7">>}
DischargeDetails == <<"Retired", "from", "service">>

TransferRecords(dates) ==
    {[recordType |-> "RECORD_TYPE_TRANSFER", recordDate |-> d, recordDetails |-> t] :
        d \in dates, t \in TransferDetails}

DischargeRecords(dates) ==
    {[recordType |-> "RECORD_TYPE_DISCHARGE", recordDate |-> d,
      recordDetails |-> DischargeDetails] : d \in dates}

\* A record of a type the scripts ignore, whose date is no date.
BadDateRecord ==
    [recordType |-> "RECORD_TYPE_PROMOTION", recordDate |-> BadDate,
     recordDetails |-> <<"Promoted">>]

\* The records of the documents of a folder of several members.
CoreRecords ==
    TransferRecords({<<2023, 1, 1>>})
    \cup {[recordType |-> "RECORD_TYPE_TRANSFER", recordDate |-> <<2023, 4, 1>>,
           recordDetails |-> t] : t \in {d \in TransferDetails : "HQ" \notin Range(d)}}
    \cup DischargeRecords({<<2023, 4, 1>>})
    \cup {BadDateRecord}

\* The records of a single member's document: also an ignored record with a
\* good date and a record without recordDetails.
Records ==
    TransferRecords(GoodDates) \cup DischargeRecords(GoodDates)
    \cup {BadDateRecord,
          [recordType |-> "RECORD_TYPE_PROMOTION", recordDate |-> <<2023, 1, 2>>,
           recordDetails |-> <<"Promoted">>],
          [recordType |-> "RECORD_TYPE_DISCHARGE", recordDate |-> <<2023, 1, 2>>]}

SeqsUpTo(S, n) == UNION {[1..k -> S] : k \in 0..n}

\* The folders of exactly n documents with up to budget records in all.
RECURSIVE FoldersOf(_, _)
FoldersOf(n, budget) ==
    IF n = 0 THEN {<< >>}
    ELSE UNION {{<<d>> \o rest : rest \in FoldersOf(n - 1, budget - Len(d))} :
                d \in SeqsUpTo(CoreRecords, budget)}

\* A folder of up to MaxFiles documents with up to MaxFolderRecords records
\* in all.
Folders == UNION {FoldersOf(n, MaxFolderRecords) : n \in 0..MaxFiles}

\* A folder holding one document of up to MaxFoldRecords records.
SingleMemberFolders == {<<d>> : d \in SeqsUpTo(Records, MaxFoldRecords)}

\* recordDetails texts of the tracker's documents: also a boot camp class
\* "... 101/23/05", a lettered squad "... A/1/B/2-7", and a text without a
\* unit; a discharge that is no retirement.
TrackerTransferDetails ==
    TransferDetails
    \cup {<<"Assigned", "to", "101", "/", "23", "/", "05">>,
          <<"Assigned", "A", "/", "1", "/", "B", "/", "2-7">>,
          <<"Reassigned">>}
TrackerDischargeDetails == {DischargeDetails, <<"Discharged">>}

TrackerDates == {<<2023, 1, 1>>, <<2023, 1, 2>>}

TrackerRecords ==
    {[recordType |-> "RECORD_TYPE_TRANSFER", recordDate |-> d, recordDetails |-> t] :
        d \in TrackerDates, t \in TrackerTransferDetails}
    \cup {[recordType |-> "RECORD_TYPE_DISCHARGE", recordDate |-> d, recordDetails |-> t] :
        d \in TrackerDates, t \in TrackerDischargeDetails}
    \cup {BadDateRecord,
          [recordType |-> "RECORD_TYPE_PROMOTION", recordDate |-> <<2023, 1, 2>>],
          [recordType |-> "RECORD_TYPE_DISCHARGE", recordDate |-> <<2023, 1, 2>>]}

\* The one profile document the tracker is started on.
TrackerFolders == {<<d>> : d \in SeqsUpTo(TrackerRecords, MaxFoldRecords)}

\* The runs start in the last tick of 2023-06-29, 179 days after 2023-01-01,
\* and are over at most MaxAdvance ticks later.
ClockStart == strptime(<<2023, 6, 29>>) + (TicksPerDay - 1)

ClockEnd == ClockStart + MaxAdvance

----------------------------------------------------------------------------
(* main of either script: the loop over the files, then the aggregation.   *)

Start ==
    /\ script \in {"strength", "retention"}
    /\ clock = ClockStart
    /\ pc = "loop"
    /\ idx = 0
    /\ events_df = << >>
    /\ memberships_df = << >>
    /\ all_memberships = << >>
    /\ output = {}
    /\ message = None
    /\ first = << >>
    /\ movements = << >>

Init == docs \in Folders /\ Start

InitFold == docs \in SingleMemberFolders /\ Start

InLoop == pc = "loop" /\ idx < Len(docs)

AfterLoop == pc = "loop" /\ idx = Len(docs)

\* extract_events raises: nothing in main catches it.
LoopRaise ==
    /\ InLoop
    /\ \E got \in extract_events(docs[idx + 1]) :
        /\ got.raised # None
        /\ pc' = "crashed"
        /\ message' = got.raised
    /\ UNCHANGED <<script, docs, clock, idx, events_df, memberships_df,
                   all_memberships, output, first, movements>>

\* "if events_df.empty: continue"
LoopSkip ==
    /\ InLoop
    /\ \E got \in extract_events(docs[idx + 1]) :
        /\ got.raised = None
        /\ got.events = << >>
        /\ events_df' = got.events
    /\ idx' = idx + 1
    /\ UNCHANGED <<script, docs, clock, pc, memberships_df, all_memberships,
                   output, message, first, movements>>

\* One file with events: create_memberships, whose datetime.now() reads a
\* clock that has moved on since it was last read, and the append.
LoopFold ==
    /\ InLoop
    /\ \E got \in extract_events(docs[idx + 1]) :
        /\ got.raised = None
        /\ got.events # << >>
        /\ events_df' = got.events
        /\ \E now \in clock..ClockEnd :
            /\ clock' = IF reads_clock(got.events) THEN now ELSE clock
            /\ memberships_df' = create_memberships(got.events, now)
    /\ all_memberships' = Append(all_memberships, memberships_df')
    /\ idx' = idx + 1
    /\ UNCHANGED <<script, docs, pc, output, message, first, movements>>

\* unitStrengthHistory.main: "if not all_memberships: print(..); return"
StrengthNoRecords ==
    /\ AfterLoop
    /\ script = "strength"
    /\ all_memberships = << >>
    /\ pc' = "done"
    /\ message' = "No relevant records found in any JSON files."
    /\ UNCHANGED <<script, docs, clock, idx, events_df, memberships_df,
                   all_memberships, output, first, movements>>

StrengthRaise ==
    /\ AfterLoop
    /\ script = "strength"
    /\ all_memberships # << >>
    /\ daily_strength_raises(Concat(all_memberships)) # None
    /\ pc' = "crashed"
    /\ message' = daily_strength_raises(Concat(all_memberships))
    /\ UNCHANGED <<script, docs, clock, idx, events_df, memberships_df,
                   all_memberships, output, first, movements>>

StrengthExport ==
    /\ AfterLoop
    /\ script = "strength"
    /\ all_memberships # << >>
    /\ daily_strength_raises(Concat(all_memberships)) = None
    /\ output' = calculate_daily_strength(Concat(all_memberships))
    /\ pc' = "done"
    /\ message' = "Daily unit strength history exported"
    /\ UNCHANGED <<script, docs, clock, idx, events_df, memberships_df,
                   all_memberships, first, movements>>

\* cohortRetentionAnalysis.main: pd.concat([]) raises ValueError
RetentionConcatRaise ==
    /\ AfterLoop
    /\ script = "retention"
    /\ all_memberships = << >>
    /\ pc' = "crashed"
    /\ message' = "ValueError"
    /\ UNCHANGED <<script, docs, clock, idx, events_df, memberships_df,
                   all_memberships, output, first, movements>>

RetentionRaise ==
    /\ AfterLoop
    /\ script = "retention"
    /\ all_memberships # << >>
    /\ retention_raises(Concat(all_memberships)) # None
    /\ pc' = "crashed"
    /\ message' = retention_raises(Concat(all_memberships))
    /\ UNCHANGED <<script, docs, clock, idx, events_df, memberships_df,
                   all_memberships, output, first, movements>>

RetentionExport ==
    /\ AfterLoop
    /\ script = "retention"
    /\ all_memberships # << >>
    /\ retention_raises(Concat(all_memberships)) = None
    /\ output' = calculate_retention(Concat(all_memberships))
    /\ pc' = "done"
    /\ message' = "Cohort retention analysis exported"
    /\ UNCHANGED <<script, docs, clock, idx, events_df, memberships_df,
                   all_memberships, first, movements>>

\* The same script is run again on the same folder; what the earlier run
\* produced is kept for comparison.
RunAgain ==
    /\ pc \in {"done", "crashed"}
    /\ first = << >>
    /\ first' = <<[pc |-> pc, message |-> message, output |-> output,
                   events_df |-> events_df, all_memberships |-> all_memberships]>>
    /\ \E now \in clock..ClockEnd : clock' = now
    /\ pc' = "loop"
    /\ idx' = 0
    /\ events_df' = << >>
    /\ memberships_df' = << >>
    /\ all_memberships' = << >>
    /\ output' = {}
    /\ message' = None
    /\ UNCHANGED <<script, docs, movements>>

\* CohortMovementTracker, started on the file docs[1].
StartTracker ==
    /\ script = "tracker"
    /\ clock = ClockStart
    /\ pc = "extract"
    /\ idx = 0
    /\ events_df = << >>
    /\ memberships_df = << >>
    /\ all_memberships = << >>
    /\ output = {}
    /\ message = None
    /\ first = << >>
    /\ movements = << >>

\* Both batch scripts and the tracker, each on one member's document.
InitEvents ==
    \/ docs \in SingleMemberFolders /\ Start
    \/ docs \in TrackerFolders /\ StartTracker

\* extract_cohort_movements raises: nothing in the script catches it.
TrackerRaise ==
    /\ pc = "extract"
    /\ extract_cohort_movements(docs[1]).raised # None
    /\ pc' = "crashed"
    /\ message' = extract_cohort_movements(docs[1]).raised
    /\ UNCHANGED <<script, docs, clock, idx, events_df, memberships_df,
                   all_memberships, output, first, movements>>

\* movements = extract_cohort_movements(user_data), handed to
\* plot_cohort_movements.
TrackerPlot ==
    /\ pc = "extract"
    /\ extract_cohort_movements(docs[1]).raised = None
    /\ movements' = extract_cohort_movements(docs[1]).movements
    /\ pc' = "done"
    /\ UNCHANGED <<script, docs, clock, idx, events_df, memberships_df,
                   all_memberships, output, message, first>>

Next ==
    \/ LoopRaise
    \/ LoopSkip
    \/ LoopFold
    \/ StrengthNoRecords
    \/ StrengthRaise
    \/ StrengthExport
    \/ RetentionConcatRaise
    \/ RetentionRaise
    \/ RetentionExport

NextTwice == Next \/ RunAgain

NextEvents == Next \/ TrackerRaise \/ TrackerPlot

\* One run of either script on a folder of several members.
Spec == Init /\ [][Next]_vars

\* One run on a single member's document, with longer documents.
SpecFold == InitFold /\ [][Next]_vars

\* Two runs of the same script on the same single-member folder.
SpecTwice == InitFold /\ [][NextTwice]_vars

\* One run of any of the three scripts on a single member's document.
SpecEvents == InitEvents /\ [][NextEvents]_vars

----------------------------------------------------------------------------
(* Properties of create_memberships, on the last file the loop folded:     *)
(* events_df is the date-ordered event sequence, memberships_df the        *)
(* intervals create_memberships emitted for it.                            *)

Folded == idx > 0 /\ events_df # << >>

\* Interval i ends on the date of a Discharge event of the sequence.
ClosedByDischarge(i) ==
    \E k \in 1..Len(events_df) :
        /\ events_df[k].event = "discharge"
        /\ events_df[k].date = memberships_df[i].end_date

\* C1 as claimed: a member's intervals, in start-date order, are contiguous
\* and non-overlapping: each interval's end_date is exactly one day before
\* the next interval's start_date, also after a Discharge.
C1_Contiguous ==
    \A i \in 1..(Len(memberships_df) - 1) :
        /\ memberships_df[i].start_date <= memberships_df[i + 1].start_date
        /\ memberships_df[i].end_date = memberships_df[i + 1].start_date - timedelta(1)

\* C1 as amended: a member's intervals are emitted in start-date order, and
\* each interval's end_date is exactly one day before the next interval's
\* start_date, unless a Discharge closed it: then its end_date is the date of
\* that Discharge, and the next interval starts on that date or later.
C1_ContiguousUnlessDischarged ==
    \A i \in 1..(Len(memberships_df) - 1) :
        /\ memberships_df[i].start_date <= memberships_df[i + 1].start_date
        /\ \/ memberships_df[i].end_date = memberships_df[i + 1].start_date - timedelta(1)
           \/ /\ ClosedByDischarge(i)
              /\ memberships_df[i].end_date <= memberships_df[i + 1].start_date

\* C1 witness: a Transfer, a Discharge and a later Transfer were folded into
\* two intervals with days between them.
C1_Witness ==
    /\ Folded
    /\ Len(events_df) = 3
    /\ events_df[1].event = "transfer"
    /\ events_df[2].event = "discharge"
    /\ events_df[3].event = "transfer"
    /\ events_df[2].date < events_df[3].date
    /\ Len(memberships_df) = 2
    /\ memberships_df[1].end_date + timedelta(1) < memberships_df[2].start_date

\* C4 as claimed: an emitted interval has end_date absent if and only if it is
\* the member's most recent interval and no Discharge closed it (the fold
\* ended with current_assignment open).
C4_OpenIntervalHasNoEndDate ==
    \A i \in 1..Len(memberships_df) :
        (memberships_df[i].end_date = NoDate)
            <=> (i = Len(memberships_df) /\ reads_clock(events_df))

\* C6 as claimed: every closed interval has end_date >= start_date.
C6_EndNotBeforeStart ==
    \A i \in 1..Len(memberships_df) :
        memberships_df[i].end_date # NoDate
            => memberships_df[i].end_date >= memberships_df[i].start_date

\* C8 as claimed: a record whose recordDate is no date, or that lacks a
\* field, is skipped: the loop of main is never ended by it, and the events of
\* the member's other Transfer and Discharge records are produced.
UsableRecords(data) ==
    SelectSeq(data, LAMBDA record :
        /\ DOMAIN record = {"recordType", "recordDate", "recordDetails"}
        /\ ValidDate(record.recordDate)
        /\ record.recordType \in {"RECORD_TYPE_TRANSFER", "RECORD_TYPE_DISCHARGE"})

HasBadRecord(data) ==
    \E k \in 1..Len(data) :
        \/ DOMAIN data[k] # {"recordType", "recordDate", "recordDetails"}
        \/ ~ValidDate(data[k].recordDate)

C8_BadRecordSkipped ==
    /\ ~(pc = "crashed" /\ idx < Len(docs))
    /\ \A k \in 1..Len(docs) :
        (idx = k /\ HasBadRecord(docs[k])) => Len(events_df) = Len(UsableRecords(docs[k]))

----------------------------------------------------------------------------
(* Properties of the tables main exports.                                  *)

Exported == pc = "done" /\ message # "No relevant records found in any JSON files."

combined_memberships_df == Concat(all_memberships)

\* The midnights from 2023-01-01 to the day after the last clock reading.
Midnights == {timedelta(k) : k \in 0..(DayOf(clock) + 1)}

\* The number of membership intervals of unit u whose inclusive range
\* [start_date, end_date] contains d.
Covering(d, u) ==
    Cardinality({i \in 1..Len(combined_memberships_df) :
        /\ unit_key(combined_memberships_df[i]) = u
        /\ combined_memberships_df[i].start_date <= d
        /\ d <= combined_memberships_df[i].end_date})

StrengthRow(d, u, n) == <<d, u.Battalion, u.Company, u.Platoon, u.Squad, n>>

\* C2 as claimed: for every date D and unit U, also a unit with absent fields,
\* the strength table has a row for (D, U) exactly when at least one interval
\* of U contains D, and the row's strength is the number of such intervals.
C2_StrengthIsCoverCount ==
    (script = "strength" /\ Exported) =>
        /\ \A i \in 1..Len(combined_memberships_df) : \A d \in Midnights :
            LET u == unit_key(combined_memberships_df[i])
            IN  Covering(d, u) >= 1 => StrengthRow(d, u, Covering(d, u)) \in output
        /\ \A row \in output :
            LET u == [Battalion |-> row[2], Company |-> row[3],
                      Platoon |-> row[4], Squad |-> row[5]]
            IN  row[6] >= 1 /\ row[6] = Covering(row[1], u)

\* C3 as claimed: an interval whose unit has an absent field is not dropped
\* by the grouping: it is counted in a row of its own unit, absent field and
\* all, in the strength table and in the retention table.
C3_UnknownUnitKept ==
    Exported =>
        \A i \in 1..Len(combined_memberships_df) :
            LET row_i == combined_memberships_df[i]
                u == unit_key(row_i)
            IN  ~notna_unit(row_i) =>
                    /\ script = "strength" =>
                        \A d \in dates_of(row_i) :
                            \E row \in output :
                                /\ row[1] = d
                                /\ <<row[2], row[3], row[4], row[5]>>
                                     = <<u.Battalion, u.Company, u.Platoon, u.Squad>>
                    /\ script = "retention" =>
                        \E row \in output :
                            /\ row.Cohort = assign_cohort(row_i.start_date)
                            /\ <<row.Battalion, row.Company, row.Platoon, row.Squad>>
                                 = <<u.Battalion, u.Company, u.Platoon, u.Squad>>

\* The rows of the (cohort, unit) group a retention row reports.
GroupOfRow(row) ==
    {i \in 1..Len(combined_memberships_df) :
        cohort_key(combined_memberships_df[i])
            = [cohort |-> row.Cohort,
               unit |-> [Battalion |-> row.Battalion, Company |-> row.Company,
                         Platoon |-> row.Platoon, Squad |-> row.Squad]]}

\* Interval i of a single member's frame is the member's open interval: the
\* last one, with no Discharge after its Transfer.
StillActive(i) == i = Len(memberships_df) /\ reads_clock(events_df)

\* C5 as claimed (on a single member's folder): for every (cohort, unit)
\* group and horizon H, the reported retention is 100 * retained / total, with
\* total the size of the group and retained the number of its intervals that
\* are still active or have end_date >= (earliest start_date of the group) + H
\* days; a still active member counts also when that date is after the run.
C5_ActiveCountsAsRetained ==
    (script = "retention" /\ Exported) =>
        \A row \in output : \A j \in 1..Len(intervals) :
            LET group == GroupOfRow(row)
                check == SetMin({combined_memberships_df[i].start_date : i \in group})
                             + timedelta(intervals[j])
                retained == {i \in group :
                                \/ StillActive(i)
                                \/ combined_memberships_df[i].end_date >= check}
            IN  /\ row.TotalMembers = Cardinality(group)
                /\ row.Retention[j] = round2(Cardinality(retained), Cardinality(group))

\* C7: every retention percentage lies in [0, 100] (here in hundredths of a
\* percent), and within a row the percentages do not increase with the
\* horizon: 30, 90, 180, 365 days.
C7_RetentionMonotone ==
    script = "retention" =>
        \A row \in output :
            /\ \A j \in 1..Len(intervals) :
                row.Retention[j] >= 0 /\ row.Retention[j] <= 10000
            /\ \A j, k \in 1..Len(intervals) :
                j < k => row.Retention[j] >= row.Retention[k]

\* C7 witness: a group of two intervals or more whose retention falls from
\* the 90 day horizon to the 180 day horizon, and is not 0 there.
C7_Witness ==
    /\ script = "retention"
    /\ Exported
    /\ \E row \in output :
        /\ row.TotalMembers >= 2
        /\ row.Retention[2] > row.Retention[3]
        /\ row.Retention[3] > 0

\* C9 as claimed: when the population yields no membership interval at all,
\* main ends with a report or an empty table, not with an exception.
C9_EmptyPopulationReported ==
    (idx = Len(docs) /\ combined_memberships_df = << >>) => pc # "crashed"

\* C10 as claimed: two runs of a script on the same documents, folding the
\* same event sequence, end the same way with the same membership intervals
\* and the same output table, whatever the clock read during each.
C10_RunsAgree ==
    (first # << >> /\ pc \in {"done", "crashed"} /\ first[1].events_df = events_df) =>
        /\ first[1].pc = pc
        /\ first[1].all_memberships = all_memberships
        /\ first[1].output = output

----------------------------------------------------------------------------
(* Properties of the event sequence.                                       *)

\* `out` holds the rows of `input` in ascending date order, rows of the same
\* date in the order they have in `input`.
StableByDate(input, out) ==
    /\ Len(out) = Len(input)
    /\ \A i \in 1..(Len(out) - 1) : out[i].date <= out[i + 1].date
    /\ \E p \in [1..Len(input) -> 1..Len(input)] :
        /\ \A i, j \in 1..Len(input) : p[i] = p[j] => i = j
        /\ \A i \in 1..Len(input) : out[i] = input[p[i]]
        /\ \A i, j \in 1..Len(input) :
            (i < j /\ out[i].date = out[j].date) => p[i] < p[j]

\* The tracker has handed its movements to the plot.
Plotted == script = "tracker" /\ pc = "done"

\* C11 as claimed: the event sequence extract_events returns, and the
\* movements extract_cohort_movements returns, are sorted ascending by date
\* and stably: two events of the same date keep the relative order of their
\* records in the document, so that a same-day Transfer/Discharge pair is
\* folded in arrival order.
C11_StableOrder ==
    /\ (script # "tracker" /\ Folded)
        => StableByDate(scan_records(docs[idx], << >>).events, events_df)
    /\ Plotted => StableByDate(scan_movements(docs[1], << >>).movements, movements)

----------------------------------------------------------------------------
(* Conservation of transfers.                                              *)

\* The Transfer events of the folded sequence, in its order.
Transfers == SelectSeq(events_df, LAMBDA event : event.event = "transfer")

\* C12: create_memberships emits as many intervals as the sequence has
\* Transfer events, the i-th interval carries the date and the unit of the
\* i-th Transfer as its start_date and unit, and a Discharge creates no
\* interval: folded with no assignment open, it emits nothing and leaves
\* current_assignment and memberships as they were.
C12_TransfersConserved ==
    Folded =>
        /\ Len(memberships_df) = Len(Transfers)
        /\ \A i \in 1..Len(memberships_df) :
            /\ memberships_df[i].start_date = Transfers[i].date
            /\ memberships_df[i].Squad = Transfers[i].Squad
            /\ memberships_df[i].Platoon = Transfers[i].Platoon
            /\ memberships_df[i].Company = Transfers[i].Company
            /\ memberships_df[i].Battalion = Transfers[i].Battalion
        /\ \A k \in 1..Len(events_df) :
            events_df[k].event = "discharge"
                => fold_events(<<events_df[k]>>, << >>, memberships_df)
                       = [current_assignment |-> << >>, memberships |-> memberships_df]

\* C12 witness: a Discharge with no interval open, then a Transfer to a
\* squad that a Discharge closes: one interval for three events.
C12_Witness ==
    /\ Folded
    /\ Len(events_df) = 3
    /\ events_df[1].event = "discharge"
    /\ events_df[2].event = "transfer"
    /\ events_df[2].Squad # None
    /\ events_df[3].event = "discharge"
    /\ events_df[1].date < events_df[2].date
    /\ Len(memberships_df) = 1
    /\ memberships_df[1].end_date = events_df[3].date

====
